---------------------------- MODULE Spec2Model ----------------------------
(***************************************************************************)
(* A model of src/components/ui/ColorInput.tsx: the color validator        *)
(* isValidColor, the hex normalizer formatColorCode and the ColorInput     *)
(* widget (local state inputValue / isInvalid, the effect that follows the *)
(* value prop, the text-field handler and the native-picker handler).      *)
(*                                                                         *)
(* Strings are TLA+ strings; a character is a string of length one.        *)
(***************************************************************************)
EXTENDS Integers, Sequences, FiniteSets, TLC

VARIABLES
    value,       \* the value prop supplied by the parent (line 32)
    depValue,    \* the dependency array [value] the effect of lines 37-40
                 \* last ran with, << >> while it has not run
    inputValue,  \* useState(value), line 33: the text shown in the field
    isInvalid,   \* useState(false), line 34
    calls,       \* the arguments passed to onChange since the parent last
                 \* rendered of its own accord, in order
    event,       \* the last operation: its kind, its argument, and the
                 \* isInvalid flag and value prop it started from (for the
                 \* effect: the dependency array it last ran with)
    lastEdit,    \* the last text-field edit, while no picker change and no
                 \* render by the parent of its own accord has followed it:
                 \* its trimmed text, the value prop it started from and
                 \* whether the effect was due when it ran
    arg,         \* SpecPure: the string a pure function is applied to
    fn,          \* SpecPure: the function applied ("none" before)
    ret          \* SpecPure: what it returned

vars == <<value, depValue, inputValue, isInvalid, calls, event, lastEdit, arg, fn, ret>>

widgetVars == <<value, depValue, inputValue, isInvalid, calls, event, lastEdit>>

pureVars == <<arg, fn, ret>>

---------------------------------------------------------------------------
(* Characters and the character classes of the regular expressions.        *)

\* The character of s at position i, the empty string outside 1..Len(s):
\* a pattern character or class matches no position beyond the input.
CharAt(s, i) == IF 1 <= i /\ i <= Len(s) THEN SubSeq(s, i, i) ELSE ""

\* [0-9A-Fa-f], lines 10 and 18
HexDigitChars ==
    {"0", "1", "2", "3", "4", "5", "6", "7", "8", "9",
     "a", "b", "c", "d", "e", "f", "A", "B", "C", "D", "E", "F"}

\* \d (no u flag: ASCII digits only), line 12
DigitChars == {"0", "1", "2", "3", "4", "5", "6", "7", "8", "9"}

\* U+000B, the vertical tab (written as the character itself: TLA+ has no
\* escape for it)
VerticalTab == ""

\* U+00A0, the no-break space (written as the character itself, as are the
\* next two: the module is read as UTF-8)
NoBreakSpace == " "

\* U+1680, the Ogham space mark
OghamSpaceMark == " "

\* U+FEFF, the zero-width no-break space (byte order mark)
ZeroWidthNoBreakSpace == "﻿"

\* \s of line 12 and the characters String.prototype.trim removes (line 44):
\* the same class in ECMAScript (WhiteSpace and LineTerminator).  These are
\* its six ASCII members, U+0009 to U+000D and U+0020, and the three others
\* a string literal can hold.  The remaining sixteen (U+2000 to U+200A,
\* U+2028, U+2029, U+202F, U+205F, U+3000) are not accepted inside a string
\* literal, so no string of the model contains one: the class is exact on
\* every string the model can form.
WhiteSpaceChars ==
    {" ", "\t", "\n", VerticalTab, "\f", "\r",
     NoBreakSpace, OghamSpaceMark, ZeroWidthNoBreakSpace}

\* s[from .. from+n-1] exists and consists of hex digits: [0-9A-Fa-f]{n}
IsHexRun(s, from, n) ==
    /\ from + n - 1 <= Len(s)
    /\ \A i \in from..(from + n - 1) : CharAt(s, i) \in HexDigitChars

\* (mutant: '#' and any three characters)
shortHexRegex_anyChars(color) ==
    /\ Len(color) = 4
    /\ CharAt(color, 1) = "#"

\* /^#([0-9A-Fa-f]{3})$/, line 18 ($ without the m flag: the end of the input)
shortHexRegex(color) ==
    /\ Len(color) = 4
    /\ CharAt(color, 1) = "#"
    /\ IsHexRun(color, 2, 3)

\* /^#([0-9A-Fa-f]{3}|[0-9A-Fa-f]{6})$/, line 10
hexRegex(color) ==
    /\ CharAt(color, 1) = "#"
    /\ \/ Len(color) = 4 /\ IsHexRun(color, 2, 3)
       \/ Len(color) = 7 /\ IsHexRun(color, 2, 6)

\* \s* from position i: the first position at or after i that holds no
\* white space (Len(s)+1 at the end of the input).  What follows \s* in the
\* pattern is never white space, so the greedy match is the only one.
SkipSpace(s, i) ==
    CHOOSE j \in i..(Len(s) + 1) :
        /\ \A k \in i..(j - 1) : CharAt(s, k) \in WhiteSpaceChars
        /\ j = Len(s) + 1 \/ CharAt(s, j) \notin WhiteSpaceChars

\* The length of the run of decimal digits that starts at position i.
DigitRun(s, i) ==
    LET j == CHOOSE j \in i..(Len(s) + 1) :
                 /\ \A k \in i..(j - 1) : CharAt(s, k) \in DigitChars
                 /\ j = Len(s) + 1 \/ CharAt(s, j) \notin DigitChars
    IN  j - i

\* (mutant: \d+ in place of \d{1,3})
NumberGroup_anyLength(s, i) ==
    LET d == SkipSpace(s, i)
        n == DigitRun(s, d)
    IN  IF n >= 1 THEN SkipSpace(s, d + n) ELSE 0

\* \s*\d{1,3}\s* from position i: the position after the match, 0 for no
\* match.  A run of four digits or more cannot match: the pattern goes on
\* with "," or ")", never with a digit.
NumberGroup(s, i) ==
    LET d == SkipSpace(s, i)
        n == DigitRun(s, d)
    IN  IF n >= 1 /\ n <= 3 THEN SkipSpace(s, d + n) ELSE 0

\* /^rgb\(\s*\d{1,3}\s*,\s*\d{1,3}\s*,\s*\d{1,3}\s*\)$/, line 12
rgbRegex(color) ==
    /\ Len(color) >= 4
    /\ SubSeq(color, 1, 4) = "rgb("
    /\ LET p1 == NumberGroup(color, 5)
       IN  /\ p1 # 0
           /\ CharAt(color, p1) = ","
           /\ LET p2 == NumberGroup(color, p1 + 1)
              IN  /\ p2 # 0
                  /\ CharAt(color, p2) = ","
                  /\ LET p3 == NumberGroup(color, p2 + 1)
                     IN  /\ p3 # 0
                         /\ p3 = Len(color)
                         /\ CharAt(color, p3) = ")"

---------------------------------------------------------------------------
(* The pure functions.                                                     *)

\* isValidColor, lines 7-14
isValidColor(color) ==
    IF color = "" THEN FALSE
    ELSE hexRegex(color) \/ rgbRegex(color)

\* (mutant: the three digits repeated as a block, abc -> abcabc)
DoubleEach_block(hex) == hex \o hex

\* hex.split('').map(c => c + c).join(''), line 20
RECURSIVE DoubleEach(_)
DoubleEach(hex) ==
    IF hex = "" THEN ""
    ELSE CharAt(hex, 1) \o CharAt(hex, 1) \o DoubleEach(SubSeq(hex, 2, Len(hex)))

\* formatColorCode, lines 17-23
formatColorCode(color) ==
    IF shortHexRegex(color)
    THEN "#" \o DoubleEach(SubSeq(color, 2, Len(color)))
    ELSE color

\* String.prototype.trim, line 44
trim(s) ==
    LET first == SkipSpace(s, 1)
        last  == CHOOSE j \in 0..Len(s) :
                     /\ \A k \in (j + 1)..Len(s) : CharAt(s, k) \in WhiteSpaceChars
                     /\ j = 0 \/ CharAt(s, j) \notin WhiteSpaceChars
    IN  IF first > last THEN "" ELSE SubSeq(s, first, last)

\* (mutant: the seed taken from the text field instead of the value prop)
pickerSeed_fromInput ==
    IF Len(inputValue) >= 1 /\ SubSeq(inputValue, 1, 1) = "#" THEN inputValue ELSE "#ffffff"

\* value.startsWith('#') ? value : '#ffffff', line 86
pickerSeed == IF Len(value) >= 1 /\ SubSeq(value, 1, 1) = "#" THEN value ELSE "#ffffff"

\* cn of '@/lib/utils' applied to an object of class names: the class names
\* whose condition holds.  classes is a set of <<class names, condition>>.
cn(classes) == {c[1] : c \in {d \in classes : d[2]}}

ErrorStyle == "border-red-500 focus:ring-red-500"

NeutralStyle == "border-gray-300 focus:ring-blue-500"

\* (mutant: the neutral style is applied unconditionally)
inputClassName_neutralAlways ==
    cn({<<ErrorStyle, isInvalid>>, <<NeutralStyle, TRUE>>})

\* the className of the text field, lines 74-77
inputClassName ==
    cn({<<ErrorStyle, isInvalid>>, <<NeutralStyle, ~isInvalid>>})

\* {isInvalid && <p ...>}, line 97: whether the message is rendered
errorMessageShown == isInvalid

---------------------------------------------------------------------------
(* The inputs the model draws from.                                        *)

\* maxLength={20} on the text field, line 78
MaxLength == 20

\* The longest text built from TextAlphabet character by character.
MaxTextLen == 2

\* The longest string built from PureAlphabet character by character.
MaxPureLen == 4

TextAlphabet == {"#", "f", " "}

PureAlphabet == {"#", "f", "A", "0", "g", " ", "r"}

RECURSIVE StringsUpTo(_, _)
StringsUpTo(alphabet, n) ==
    IF n = 0 THEN {""}
    ELSE LET S == StringsUpTo(alphabet, n - 1)
         IN  S \cup {s \o c : s \in S, c \in alphabet}

\* '#' and three hex digits, over a sample of the digits (both cases)
ShortHexTexts == {"#" \o a \o b \o c : a, b, c \in {"f", "A"}}

\* '#' and three hex digits, over all of them
AllShortHex == {"#" \o a \o b \o c : a, b, c \in HexDigitChars}

\* '#' and six hex digits
LongHexTexts ==
    {"#" \o a \o b \o c : a, b, c \in {"00", "ff", "1a", "C3"}}

\* rgb( g , g , g ) with groups of zero to four digits, bare and padded
RgbGroups ==
    {"", "0", "25", "255", "999", "1000", " 1", "2 ", " 30 ", "\t7",
     VerticalTab \o "2", NoBreakSpace \o "3"}

RgbTexts == {"rgb(" \o a \o "," \o b \o "," \o c \o ")" : a, b, c \in RgbGroups}

SampleTexts ==
    {"#f00", " #f00 ", "#F00", "\t#abc\n", "#ff0000", "  #ff0000", "#123456",
     "#AbCdEf", "rgb(255,255,255)", "rgb(1, 2, 3)", " rgb(1, 2, 3) ",
     "rgb(999,999,999)", "rgb(1000,0,0)", "rgb(1,2)", "RGB(1,2,3)",
     "blue", "notacolor", "#ggg", "#ff", "#ff00", "#fffffff", "   ", "x", " x y ",
     "rgb(", "rgb(1", "rgb(255", "rgb(1 ", "rgb(1,", "rgb(1,2", "rgb(1, 2 ",
     "rgb(1,2,3", VerticalTab \o "#f00", "#f00" \o VerticalTab,
     " " \o VerticalTab \o " ", "rgb(1," \o VerticalTab \o "2,3)",
     NoBreakSpace, NoBreakSpace \o "#f00", "#f00" \o NoBreakSpace,
     " " \o NoBreakSpace \o " ", "rgb(1," \o NoBreakSpace \o "2,3)",
     "rgb(1, 2," \o NoBreakSpace \o "3)",
     ZeroWidthNoBreakSpace \o "#f00", "rgb(1,2," \o ZeroWidthNoBreakSpace \o "3)",
     "#f00" \o OghamSpaceMark, "rgb(" \o OghamSpaceMark \o "2,3,4)"}

\* What the user can make the text field hold.
RawTexts ==
    {r \in StringsUpTo(TextAlphabet, MaxTextLen) \cup ShortHexTexts \cup SampleTexts :
        Len(r) <= MaxLength}

\* What the parent supplies as the value prop: legal and illegal strings.
ExternalValues ==
    {"#123456", "#ff0000", "#f00", "rgb(1, 2, 3)", "notacolor", ""}

\* What the native picker (input type="color", lines 84-87) emits:
\* lower-case 6-digit hex strings.
PickerColors == {"#000000", "#ffffff", "#ff0000", "#1a2b3c"}

\* The arguments of the pure functions.
PureInputs ==
    StringsUpTo(PureAlphabet, MaxPureLen) \cup AllShortHex \cup LongHexTexts
        \cup RgbTexts \cup SampleTexts \cup {"#fff\n", "x#fff", "#12345g"}

---------------------------------------------------------------------------
(* The widget.                                                             *)

Event(kind, a) ==
    [kind |-> kind, arg |-> a, prevInvalid |-> isInvalid, prevValue |-> value]

\* No text-field edit is on record.
NoEdit == [active |-> FALSE, text |-> "", prevValue |-> "", pending |-> FALSE]

\* The record of a text-field edit with trimmed text t, taken before it acts.
Edit(t) ==
    [active |-> TRUE, text |-> t, prevValue |-> value, pending |-> (depValue # <<value>>)]

\* The state after the mount render: useState(value), useState(false)
\* (lines 33-34); the effect of lines 37-40 has not run yet and is due.
Init ==
    /\ value \in ExternalValues
    /\ depValue = << >>
    /\ inputValue = value
    /\ isInvalid = FALSE
    /\ calls = << >>
    /\ event = [kind |-> "mount", arg |-> value, prevInvalid |-> FALSE,
                prevValue |-> value]
    /\ lastEdit = NoEdit
    /\ arg = ""
    /\ fn = "none"
    /\ ret = ""

\* No effect is due: the effect has run with the current value prop.  React
\* runs a render's effects before it renders again; an event handler can run
\* while the effect is still due (after the mount render too), its state
\* updates then precede the effect's.
Settled == depValue = <<value>>

\* The parent renders the widget with value prop v (the same or another).
Render(v) ==
    /\ Settled
    /\ value' = v
    /\ calls' = << >>
    /\ event' = Event("render", v)
    /\ lastEdit' = NoEdit
    /\ UNCHANGED <<depValue, inputValue, isInvalid, pureVars>>

\* (mutant: the effect validates the new value)
SyncEffect_revalidate ==
    /\ depValue # <<value>>
    /\ inputValue' = value
    /\ isInvalid' = (value # "" /\ ~isValidColor(value))
    /\ depValue' = <<value>>
    /\ event' = [Event("sync", value) EXCEPT !.prevValue = depValue]
    /\ UNCHANGED <<value, calls, lastEdit, pureVars>>

\* (mutant: no dependency array, the effect runs after every render)
SyncEffect_everyRender ==
    /\ inputValue' = value
    /\ isInvalid' = FALSE
    /\ depValue' = <<value>>
    /\ event' = [Event("sync", value) EXCEPT !.prevValue = depValue]
    /\ UNCHANGED <<value, calls, lastEdit, pureVars>>

\* (mutant: the effect clears the flag and leaves the displayed text)
SyncEffect_flagOnly ==
    /\ depValue # <<value>>
    /\ isInvalid' = FALSE
    /\ depValue' = <<value>>
    /\ event' = [Event("sync", value) EXCEPT !.prevValue = depValue]
    /\ UNCHANGED <<value, calls, lastEdit, inputValue, pureVars>>

\* (mutant: the effect copies the value and leaves the flag)
SyncEffect_keepFlag ==
    /\ depValue # <<value>>
    /\ inputValue' = value
    /\ depValue' = <<value>>
    /\ event' = [Event("sync", value) EXCEPT !.prevValue = depValue]
    /\ UNCHANGED <<value, calls, lastEdit, isInvalid, pureVars>>

\* useEffect(() => { setInputValue(value); setIsInvalid(false) }, [value]),
\* lines 37-40: runs after the mount render and after a render whose value
\* differs from the one it last ran with.
SyncEffect ==
    /\ depValue # <<value>>
    /\ inputValue' = value
    /\ isInvalid' = FALSE
    /\ depValue' = <<value>>
    /\ event' = [Event("sync", value) EXCEPT !.prevValue = depValue]
    /\ UNCHANGED <<value, calls, lastEdit, pureVars>>

\* (mutant: onChange(input), the text passed on without formatColorCode)
handleInputChange_noFormat(r) ==
    /\ LET input == trim(r)
       IN  /\ inputValue' = input
           /\ IF isValidColor(input)
              THEN /\ calls' = <<input>>
                   /\ isInvalid' = FALSE
              ELSE /\ calls' = << >>
                   /\ isInvalid' = (input # "")
    /\ event' = Event("input", r)
    /\ lastEdit' = Edit(trim(r))
    /\ UNCHANGED <<value, depValue, pureVars>>

\* (mutant: setIsInvalid(true) for every text that fails, the empty one too)
handleInputChange_flagEmpty(r) ==
    /\ LET input == trim(r)
       IN  /\ inputValue' = input
           /\ IF isValidColor(input)
              THEN /\ calls' = <<formatColorCode(input)>>
                   /\ isInvalid' = FALSE
              ELSE /\ calls' = << >>
                   /\ isInvalid' = TRUE
    /\ event' = Event("input", r)
    /\ lastEdit' = Edit(trim(r))
    /\ UNCHANGED <<value, depValue, pureVars>>

\* (mutant: the valid branch does not clear the flag)
handleInputChange_keepFlag(r) ==
    /\ LET input == trim(r)
       IN  /\ inputValue' = input
           /\ IF isValidColor(input)
              THEN /\ calls' = <<formatColorCode(input)>>
                   /\ UNCHANGED isInvalid
              ELSE /\ calls' = << >>
                   /\ isInvalid' = (input # "")
    /\ event' = Event("input", r)
    /\ lastEdit' = Edit(trim(r))
    /\ UNCHANGED <<value, depValue, pureVars>>

\* (mutant: onChange is called before the text is validated)
handleInputChange_alwaysCall(r) ==
    /\ LET input == trim(r)
       IN  /\ inputValue' = input
           /\ calls' = <<formatColorCode(input)>>
           /\ isInvalid' = (input # "" /\ ~isValidColor(input))
    /\ event' = Event("input", r)
    /\ lastEdit' = Edit(trim(r))
    /\ UNCHANGED <<value, depValue, pureVars>>

\* (mutant: the raw text is validated, the trimmed text stored)
handleInputChange_validateRaw(r) ==
    /\ LET input == trim(r)
       IN  /\ inputValue' = input
           /\ IF isValidColor(r)
              THEN /\ calls' = <<formatColorCode(r)>>
                   /\ isInvalid' = FALSE
              ELSE /\ calls' = << >>
                   /\ isInvalid' = (input # "")
    /\ event' = Event("input", r)
    /\ lastEdit' = Edit(trim(r))
    /\ UNCHANGED <<value, depValue, pureVars>>

\* handleInputChange, lines 43-55; r is e.target.value
handleInputChange(r) ==
    /\ LET input == trim(r)
       IN  /\ inputValue' = input
           /\ IF isValidColor(input)
              THEN /\ calls' = <<formatColorCode(input)>>
                   /\ isInvalid' = FALSE
              ELSE /\ calls' = << >>
                   /\ isInvalid' = (input # "")
    /\ event' = Event("input", r)
    /\ lastEdit' = Edit(trim(r))
    /\ UNCHANGED <<value, depValue, pureVars>>

\* (mutant: setIsInvalid(false) is left out)
handleColorPickerChange_keepFlag(c) ==
    /\ calls' = <<c>>
    /\ inputValue' = c
    /\ event' = Event("picker", c)
    /\ lastEdit' = NoEdit
    /\ UNCHANGED <<value, depValue, isInvalid, pureVars>>

\* handleColorPickerChange, lines 58-63; c is e.target.value
handleColorPickerChange(c) ==
    /\ calls' = <<c>>
    /\ inputValue' = c
    /\ isInvalid' = FALSE
    /\ event' = Event("picker", c)
    /\ lastEdit' = NoEdit
    /\ UNCHANGED <<value, depValue, pureVars>>

Next ==
    \/ \E v \in ExternalValues : Render(v)
    \/ SyncEffect
    \/ \E r \in RawTexts : handleInputChange(r)
    \/ \E c \in PickerColors : handleColorPickerChange(c)

Spec == Init /\ [][Next]_vars

---------------------------------------------------------------------------
(* The widget under a parent that adopts every callback value: its         *)
(* onChange handler stores the value and renders the widget with it.       *)

\* The values the parent supplies of its own accord: fixed points of
\* formatColorCode.
FixedPointValues == {v \in ExternalValues : formatColorCode(v) = v}

\* Valid and invalid, bare and padded, shorthand, 6-digit and rgb texts.
AdoptSamples ==
    {"#f00", " #f00 ", "#F00", "#ff0000", "#123456", "rgb(1, 2, 3)",
     " rgb(1, 2, 3) ", NoBreakSpace \o "#f00", "#ggg", "notacolor", "rgb(1",
     "   "}

\* What the user types in this specification.
AdoptTexts ==
    {r \in StringsUpTo(TextAlphabet, MaxTextLen) \cup AdoptSamples : Len(r) <= MaxLength}

\* No callback value awaits adoption.
Adopted == IF calls = << >> THEN TRUE ELSE value = calls[Len(calls)]

\* The parent's onChange: the callback value becomes the value prop, in the
\* render that follows the handler (a render: an effect that is due runs
\* before it).
ParentAdopt ==
    /\ ~Adopted
    /\ Settled
    /\ value' = calls[Len(calls)]
    /\ UNCHANGED <<depValue, inputValue, isInvalid, calls, event, lastEdit, pureVars>>

InitAdopt ==
    /\ Init
    /\ value \in FixedPointValues

NextAdopt ==
    \/ ParentAdopt
    \/ SyncEffect
    \/ Adopted /\ \E v \in FixedPointValues : Render(v)
    \/ Adopted /\ \E r \in AdoptTexts : handleInputChange(r)
    \/ Adopted /\ \E c \in PickerColors : handleColorPickerChange(c)

SpecAdopt == InitAdopt /\ [][NextAdopt]_vars

---------------------------------------------------------------------------
(* The pure functions applied to the strings of PureInputs.                *)

InitPure ==
    /\ value = "#ffffff"
    /\ depValue = <<value>>
    /\ inputValue = value
    /\ isInvalid = FALSE
    /\ calls = << >>
    /\ event = [kind |-> "mount", arg |-> value, prevInvalid |-> FALSE,
                prevValue |-> value]
    /\ lastEdit = NoEdit
    /\ arg \in PureInputs
    /\ fn = "none"
    /\ ret = ""

ApplyIsValidColor ==
    /\ fn = "none"
    /\ fn' = "isValidColor"
    /\ ret' = isValidColor(arg)
    /\ UNCHANGED <<arg, widgetVars>>

ApplyFormatColorCode ==
    /\ fn = "none"
    /\ fn' = "formatColorCode"
    /\ ret' = formatColorCode(arg)
    /\ UNCHANGED <<arg, widgetVars>>

ApplyTrim ==
    /\ fn = "none"
    /\ fn' = "trim"
    /\ ret' = trim(arg)
    /\ UNCHANGED <<arg, widgetVars>>

NextPure ==
    \/ ApplyIsValidColor
    \/ ApplyFormatColorCode
    \/ ApplyTrim

SpecPure == InitPure /\ [][NextPure]_vars

---------------------------------------------------------------------------
(* The properties.                                                         *)

\* '#' followed by three hex digits, stated on the set of all such strings
IsShortHand(s) == s \in AllShortHex

\* '#' followed by six hex digits
IsLongHex(s) ==
    /\ Len(s) = 7
    /\ CharAt(s, 1) = "#"
    /\ \A i \in 2..7 : CharAt(s, i) \in HexDigitChars

\* The trimmed text of the last text-field edit.
EditedText == trim(event.arg)

\* C1: every value passed to the on-change callback passes isValidColor, is
\* a fixed point of formatColorCode and is no 3-digit shorthand; for a
\* picker change, provided the picker emitted a 6-digit hex string.
C1_CallbackValuesNormalized ==
    \A i \in 1..Len(calls) :
        (event.kind = "picker" => IsLongHex(event.arg)) =>
            /\ isValidColor(calls[i])
            /\ formatColorCode(calls[i]) = calls[i]
            /\ ~IsShortHand(calls[i])

\* A padded shorthand was typed and its 6-digit form reached the callback.
C1_Witness ==
    /\ event.kind = "input"
    /\ event.arg = " #f00 "
    /\ calls = <<"#ff0000">>

\* C2: isInvalid = TRUE implies that the displayed text is non-empty and
\* fails isValidColor; the empty text is never flagged.
C2_InvalidOnlyForBadText ==
    isInvalid => (inputValue # "" /\ ~isValidColor(inputValue))

\* The flag is set on a text that fails validation.
C2_Witness ==
    /\ isInvalid
    /\ event.kind = "input"
    /\ inputValue = "#ggg"

\* C3: once the effect has run for a changed value prop (or for the first
\* one, after mount), the displayed text is that value verbatim and the flag
\* is clear, whatever they were before and whether or not the value passes
\* isValidColor.
C3_ExternalSyncResets ==
    event.kind = "sync" =>
        /\ event.prevValue # <<value>>
        /\ inputValue = value
        /\ ~isInvalid

\* The effect ran from a flagged local edit for a value that fails validation.
C3_Witness ==
    /\ event.kind = "sync"
    /\ event.prevInvalid
    /\ value = "notacolor"
    /\ inputValue = "notacolor"
    /\ ~isInvalid

\* C4: a text-field edit whose trimmed text t passes isValidColor issues
\* exactly one callback, with formatColorCode(t), and clears the flag;
\* typing "#f00" issues exactly one callback with "#ff0000".
C4_ValidEditCallsBackOnce ==
    /\ (event.kind = "input" /\ isValidColor(EditedText)) =>
           /\ calls = <<formatColorCode(EditedText)>>
           /\ ~isInvalid
    /\ (event.kind = "input" /\ event.arg = "#f00") => calls = <<"#ff0000">>

\* "#f00" was typed over a flagged text.
C4_Witness ==
    /\ event.kind = "input"
    /\ event.arg = "#f00"
    /\ event.prevInvalid
    /\ calls = <<"#ff0000">>
    /\ ~isInvalid

\* C5: a text-field edit whose trimmed text t fails isValidColor issues no
\* callback and leaves the value prop as it was; the flag becomes TRUE when
\* t is non-empty and FALSE when t is empty.
C5_InvalidEditIsSilent ==
    (event.kind = "input" /\ ~isValidColor(EditedText)) =>
        /\ calls = << >>
        /\ value = event.prevValue
        /\ isInvalid = (EditedText # "")

\* White space only was typed over a flagged text.
C5_Witness ==
    /\ event.kind = "input"
    /\ event.arg = "   "
    /\ event.prevInvalid
    /\ inputValue = ""
    /\ calls = << >>
    /\ ~isInvalid

\* C6: a picker change emitting c, from any state, calls back with exactly
\* c, makes c the displayed text and clears the flag.
C6_PickerPassesThrough ==
    event.kind = "picker" =>
        /\ calls = <<event.arg>>
        /\ inputValue = event.arg
        /\ ~isInvalid

\* The picker emitted a color over a flagged text.
C6_Witness ==
    /\ event.kind = "picker"
    /\ event.arg = "#1a2b3c"
    /\ event.prevInvalid
    /\ calls = <<"#1a2b3c">>
    /\ inputValue = "#1a2b3c"
    /\ ~isInvalid

\* the seed the claim expects for value prop v
ExpectedSeed(v) == IF v # "" /\ CharAt(v, 1) = "#" THEN v ELSE "#ffffff"

\* C7: the picker's seed is the value prop when that starts with '#' and
\* "#ffffff" otherwise; a text-field edit that issues no callback leaves it
\* what the value prop made it before the edit.
C7_PickerSeedFollowsValue ==
    /\ pickerSeed = ExpectedSeed(value)
    /\ (event.kind = "input" /\ calls = << >>) => pickerSeed = ExpectedSeed(event.prevValue)
    /\ value = "notacolor" => pickerSeed = "#ffffff"

\* A text starting with '#' was typed, without a callback, while the value
\* prop is "notacolor".
C7_Witness ==
    /\ event.kind = "input"
    /\ calls = << >>
    /\ value = "notacolor"
    /\ inputValue = "#ff"
    /\ pickerSeed = "#ffffff"

\* an edit to a valid text that leaves the flag clear
RecoverByValidEdit ==
    \E r \in RawTexts : isValidColor(trim(r)) /\ handleInputChange(r) /\ ~isInvalid'

\* an edit to the empty text that leaves the flag clear
RecoverByEmptyEdit ==
    \E r \in RawTexts : trim(r) = "" /\ handleInputChange(r) /\ ~isInvalid'

\* a render with another value, after which the effect is due
RenderAnother ==
    \E v \in ExternalValues : v # value /\ Render(v) /\ depValue' # <<value'>>

\* the effect running and leaving the flag clear
RecoverBySync == SyncEffect /\ ~isInvalid'

\* C8: the flagged state is recoverable: in every reachable state with
\* isInvalid = TRUE, either no effect is due and an edit to a valid text, an
\* edit to the empty text and a render with another value are each possible,
\* the edits clearing the flag, or the effect is due and clears it.
C8_InvalidIsRecoverable ==
    isInvalid =>
        IF Settled
        THEN /\ ENABLED RecoverByValidEdit
             /\ ENABLED RecoverByEmptyEdit
             /\ ENABLED RenderAnother
        ELSE ENABLED RecoverBySync

\* The effect is due in a flagged state.
C8_Witness ==
    /\ isInvalid
    /\ ~Settled
    /\ event.kind = "render"

\* the digits of a shorthand, each written twice in place
DuplicatedInPlace(s) ==
    "#" \o CharAt(s, 2) \o CharAt(s, 2) \o CharAt(s, 3) \o CharAt(s, 3)
        \o CharAt(s, 4) \o CharAt(s, 4)

\* C9: for every 3-digit hex string #d1d2d3, formatColorCode returns
\* #d1d1d2d2d3d3, case preserved, and the result passes isValidColor.
C9_ShorthandExpands ==
    (fn = "formatColorCode" /\ IsShortHand(arg)) =>
        /\ ret = DuplicatedInPlace(arg)
        /\ Len(ret) = 7
        /\ isValidColor(ret)

\* formatColorCode was applied to a mixed-case shorthand.
C9_Witness ==
    /\ fn = "formatColorCode"
    /\ arg = "#aBc"
    /\ ret = "#aaBBcc"

\* C10: for every string that is no 3-digit hex shorthand, formatColorCode
\* returns its input unchanged.
C10_IdentityElsewhere ==
    (fn = "formatColorCode" /\ ~IsShortHand(arg)) => ret = arg

\* formatColorCode was applied to '#' and three characters that are no hex
\* digits.
C10_Witness ==
    /\ fn = "formatColorCode"
    /\ arg = "#ggg"
    /\ ret = "#ggg"

\* all characters of s[from..to] are in class
AllIn(s, from, to, class) == \A k \in from..to : CharAt(s, k) \in class

\* g is optional white space, one to three decimal digits, optional white space
IsChannelGroup(g) ==
    \E i \in 1..Len(g) : \E n \in 1..3 :
        /\ i + n - 1 <= Len(g)
        /\ AllIn(g, 1, i - 1, WhiteSpaceChars)
        /\ AllIn(g, i, i + n - 1, DigitChars)
        /\ AllIn(g, i + n, Len(g), WhiteSpaceChars)

\* s is rgb( g1 , g2 , g3 ) for three channel groups
IsRgbLiteral(s) ==
    /\ Len(s) >= 5
    /\ SubSeq(s, 1, 4) = "rgb("
    /\ CharAt(s, Len(s)) = ")"
    /\ \E c1 \in 5..(Len(s) - 1) : \E c2 \in (c1 + 1)..(Len(s) - 1) :
           /\ CharAt(s, c1) = ","
           /\ CharAt(s, c2) = ","
           /\ IsChannelGroup(SubSeq(s, 5, c1 - 1))
           /\ IsChannelGroup(SubSeq(s, c1 + 1, c2 - 1))
           /\ IsChannelGroup(SubSeq(s, c2 + 1, Len(s) - 1))

\* C11: isValidColor always returns a boolean, TRUE exactly for '#' with 3
\* or 6 hex digits and for rgb( g , g , g ) with groups of 1 to 3 digits and
\* optional white space, FALSE for every other string, the empty one
\* included; "rgb(999,999,999)" is accepted, a group of 4 digits rejected.
C11_ValidatorIsLexical ==
    fn = "isValidColor" =>
        /\ ret \in BOOLEAN
        /\ ret = (IsShortHand(arg) \/ IsLongHex(arg) \/ IsRgbLiteral(arg))
        /\ arg \in {"#fff", "#ffffff", "rgb(255,255,255)", "rgb(1, 2, 3)",
                    "rgb(999,999,999)"} => ret = TRUE
        /\ arg \in {"", "blue", "#ggg", "rgb(1000,0,0)"} => ret = FALSE

\* isValidColor accepted an rgb literal with channels out of range.
C11_Witness ==
    /\ fn = "isValidColor"
    /\ arg = "rgb(999,999,999)"
    /\ ret = TRUE

\* C12: the error style and the message are shown exactly when isInvalid
\* is TRUE, and exactly one of the error style and the neutral style is
\* applied.
C12_FeedbackFollowsFlag ==
    /\ (ErrorStyle \in inputClassName) = isInvalid
    /\ errorMessageShown = isInvalid
    /\ (NeutralStyle \in inputClassName) = ~isInvalid
    /\ Cardinality(inputClassName) = 1

\* The flagged state, rendered with the error style and the message.
C12_Witness ==
    /\ isInvalid
    /\ inputClassName = {ErrorStyle}
    /\ errorMessageShown

\* t is r without its leading and trailing white space
IsTrimOf(t, r) ==
    /\ t = "" \/ (CharAt(t, 1) \notin WhiteSpaceChars /\ CharAt(t, Len(t)) \notin WhiteSpaceChars)
    /\ \E i \in 1..(Len(r) + 1) :
           /\ i + Len(t) - 1 <= Len(r)
           /\ SubSeq(r, i, i + Len(t) - 1) = t
           /\ AllIn(r, 1, i - 1, WhiteSpaceChars)
           /\ AllIn(r, i + Len(t), Len(r), WhiteSpaceChars)

\* C13: on every text-field edit with raw text r the displayed text is r
\* without its leading and trailing white space, and that text, not r, is
\* what is validated and normalized.
C13_EditStoresTrimmedText ==
    event.kind = "input" =>
        /\ IsTrimOf(inputValue, event.arg)
        /\ IF isValidColor(inputValue)
           THEN calls = <<formatColorCode(inputValue)>> /\ ~isInvalid
           ELSE calls = << >> /\ isInvalid = (inputValue # "")

\* A padded shorthand was typed: the raw text fails validation, the
\* trimmed text passes.
C13_Witness ==
    /\ event.kind = "input"
    /\ event.arg = "\t#abc\n"
    /\ inputValue = "#abc"
    /\ ~isValidColor(event.arg)
    /\ calls = <<"#aabbcc">>
    /\ ~isInvalid

\* C16: the effect runs only from a state whose value prop differs from the
\* one it last ran with (after mount: it has not run); a render that
\* supplies the same value leaves the displayed text and the flag as they
\* were and leaves no effect due.
C16_SameValueRenderKeepsEdit ==
    [][ /\ (event'.kind = "render" /\ value' = value) =>
               /\ inputValue' = inputValue
               /\ isInvalid' = isInvalid
               /\ depValue' = <<value'>>
        /\ event'.kind = "sync" => depValue # <<value>> ]_vars

\* A flagged edit is still shown after a render with the same value.
C16_Witness ==
    /\ event.kind = "render"
    /\ event.arg = event.prevValue
    /\ event.prevInvalid
    /\ isInvalid
    /\ inputValue = "#ggg"
    /\ Settled

\* C14: under the adopting parent, in every settled state (no effect due,
\* no callback value awaiting adoption) with the flag clear and a non-empty
\* displayed text, formatColorCode of the displayed text is the value prop.
C14_UnflaggedTextDenotesValue ==
    (Settled /\ Adopted /\ ~isInvalid /\ inputValue # "") =>
        formatColorCode(inputValue) = value

\* A shorthand is displayed, unflagged, and the value prop is its 6-digit
\* form.
C14_Witness ==
    /\ Settled /\ Adopted /\ ~isInvalid
    /\ event.kind = "input"
    /\ inputValue = "#f00"
    /\ value = "#ff0000"

\* The last text-field edit was valid and has settled: its callback value is
\* adopted and no effect is due.
ValidEditSettled ==
    /\ lastEdit.active
    /\ isValidColor(lastEdit.text)
    /\ Adopted
    /\ Settled

\* C15 as stated: under the adopting parent, a valid edit with trimmed text
\* t settles with the flag clear and with displayed text t, no effect
\* having run, if formatColorCode(t) is the value prop the edit started
\* from, and with displayed text formatColorCode(t), written by the effect,
\* otherwise.
C15_Original ==
    ValidEditSettled =>
        /\ ~isInvalid
        /\ value = formatColorCode(lastEdit.text)
        /\ IF formatColorCode(lastEdit.text) = lastEdit.prevValue
           THEN inputValue = lastEdit.text /\ event.kind = "input"
           ELSE inputValue = formatColorCode(lastEdit.text) /\ event.kind = "sync"

\* C15, amended: the same, but the displayed text stays t only if, besides,
\* no effect was due when the edit ran; an effect that was due runs after
\* the edit and overwrites t with the value prop, formatColorCode(t).
C15_ValidEditSettles ==
    ValidEditSettled =>
        /\ ~isInvalid
        /\ value = formatColorCode(lastEdit.text)
        /\ IF formatColorCode(lastEdit.text) = lastEdit.prevValue /\ ~lastEdit.pending
           THEN inputValue = lastEdit.text /\ event.kind = "input"
           ELSE inputValue = formatColorCode(lastEdit.text) /\ event.kind = "sync"

\* The parent rendered "#ff0000", "#f00" was typed while the effect was
\* due, and the effect then overwrote it.
C15_Witness ==
    /\ ValidEditSettled
    /\ lastEdit.text = "#f00"
    /\ lastEdit.prevValue = "#ff0000"
    /\ lastEdit.pending
    /\ inputValue = "#ff0000"
    /\ value = "#ff0000"
    /\ ~isInvalid

=============================================================================
